---- MODULE Spec2Model ----
(***************************************************************************)
(* Model of the JavaLab backend (src/backend/server.js): the POST /compile *)
(* handler, the two subprocess helpers compileJava / executeJava, the      *)
(* source normalizer, the denylist filter and the scratch directory.       *)
(*                                                                         *)
(* Text is modelled as a sequence of tokens (each token stands for a fixed *)
(* piece of program text); a request body's `code` is such a sequence plus *)
(* a run of `pad` filler characters, so that lengths around the 10000      *)
(* character limit can be reached.                                         *)
(*                                                                         *)
(* JavaScript runs each synchronous stretch of a handler to completion, so *)
(* one action is one stretch between two awaits.  The external tools are   *)
(* modelled by what they do with the files they are given: javac names the *)
(* class files after the declared classes and insists that a public class  *)
(* lives in a file of its own name; java loads <name>.class from the       *)
(* class path directory.                                                   *)
(*                                                                         *)
(* Spec is the handler alone on a host whose os.tmpdir() is /tmp.  The     *)
(* other specifications add a part of the host: SpecAnyTmpdir any          *)
(* temporary directory, SpecReaper the clock and cleanupTempFiles,         *)
(* SpecRace cleanupTempFiles next to another process that removes files,   *)
(* SpecFaults files the system refuses to remove, SpecServed the same with *)
(* the scheduling that lets every started request go on.  SpecNormalize    *)
(* is the normalizer alone, applied to every short text.  SpecClient is    *)
(* the page of src/frontend/script.js: its editor, runCode and isRunning.  *)
(***************************************************************************)
EXTENDS Integers, Sequences, FiniteSets, TLC

\* ------------------------------------------------------------------ bounds
\* number of POST /compile requests the model lets arrive
NReq == 2

Req == 1..NReq

\* ------------------------------------------------------- program constants
\* server.js:64   code.length > 10000
MaxCodeLength == 10000

\* ------------------------------------------------------------------ tokens
T_PUBLIC == "public "
T_CLASS  == "class Main"
T_OPEN   == "{"
T_CLOSE  == "}"
T_PSVM   == "public static void main(String[] args) {"
T_PRINT  == "System.out.println(\"hi\");"
T_LOOP   == "while(true){}"
T_BAD    == "int x = ;"
T_NL     == "\n"
T_SP     == " "
T_IND4   == "    "
T_IND8   == "        "
T_CSTART == "// User code starts here"
T_CEND   == "// User code ends here"
\* a run of spaces; a string's `pad` says how many
T_FILL   == "<spaces>"

WhiteSpace == {T_SP, T_NL, T_IND4, T_IND8, T_FILL}
LineComment == {T_CSTART, T_CEND}

\* number of characters of a token (String.length of the text it stands for);
\* pad is the number of characters of the filler token
TokLen(t, pad) ==
  CASE t = T_PUBLIC -> 7
    [] t = T_CLASS -> 10
    [] t = T_OPEN -> 1
    [] t = T_CLOSE -> 1
    [] t = T_PSVM -> 40
    [] t = T_PRINT -> 25
    [] t = T_LOOP -> 13
    [] t = T_BAD -> 9
    [] t = T_NL -> 1
    [] t = T_SP -> 1
    [] t = T_IND4 -> 4
    [] t = T_IND8 -> 8
    [] t = T_CSTART -> 24
    [] t = T_CEND -> 22
    [] t = T_FILL -> pad
    [] t = "Runtime.getRuntime()" -> 20
    [] t = "ProcessBuilder" -> 14
    [] t = "exec(" -> 5
    [] t = "System.exit(" -> 12
    [] t = "Thread.sleep(" -> 13
    [] t = "FileWriter" -> 10
    [] t = "FileOutputStream" -> 16
    [] t = "Socket(" -> 7
    [] t = "ServerSocket(" -> 13
    [] t = "Class.forName" -> 13
    [] t = "javax.script" -> 12
    [] t = "native" -> 6
    [] t = "synchronized" -> 12
    [] t = "(" -> 1
    [] t = "wait(" -> 5
    [] t = "notify(" -> 7
    [] OTHER -> 1

RECURSIVE SumLen(_, _)
SumLen(s, pad) ==
  IF s = <<>> THEN 0 ELSE TokLen(Head(s), pad) + SumLen(Tail(s), pad)

\* s contains p as a contiguous run of tokens (String.prototype.includes)
Includes(s, p) ==
  \E i \in 1..(Len(s) - Len(p) + 1) : SubSeq(s, i, i + Len(p) - 1) = p

\* ------------------------------------------------------- the `code` values
\* kind: the JavaScript type of req.body.code; truthy: its truthiness when it
\* is not a string; toks: the text of a string; pad: the length of its filler.
Code(kind, truthy, toks, pad) ==
  [kind |-> kind, truthy |-> truthy, toks |-> toks, pad |-> pad]

Str(toks)         == Code("string", TRUE, toks, 0)
StrPad(toks, pad) == Code("string", TRUE, toks, pad)

\* code.length
Length(code) == SumLen(code.toks, code.pad)

\* !code  (the empty string is falsy, every other string is truthy)
Falsy(code) ==
  IF code.kind = "string" THEN Length(code) = 0 ELSE ~code.truthy

\* ------------------------------------------------------ containsMaliciousCode
\* some token of the set `first` is followed, after `ws` (0: nothing, 1: one
\* white-space character, 2: any run of white space), by token `then`
\* ("" for nothing)
RECURSIVE SkipWs(_, _)
SkipWs(s, i) ==
  IF i <= Len(s) /\ s[i] \in WhiteSpace THEN SkipWs(s, i + 1) ELSE i

Matches(s, first, ws, then) ==
  \E i \in 1..Len(s) :
    /\ s[i] \in first
    /\ CASE ws = 0 -> TRUE
         [] ws = 1 -> i < Len(s) /\ s[i + 1] \in WhiteSpace
         [] OTHER  -> LET j == SkipWs(s, i + 1) IN j <= Len(s) /\ s[j] = then

\* server.js:217-233, in the order of the array
dangerousPatterns ==
  << [first |-> {"Runtime.getRuntime()"}, ws |-> 0, then |-> ""],
     [first |-> {"ProcessBuilder"}, ws |-> 0, then |-> ""],
     [first |-> {"exec("}, ws |-> 0, then |-> ""],
     [first |-> {"System.exit("}, ws |-> 0, then |-> ""],
     [first |-> {"Thread.sleep("}, ws |-> 0, then |-> ""],
     [first |-> {"FileWriter"}, ws |-> 0, then |-> ""],
     [first |-> {"FileOutputStream"}, ws |-> 0, then |-> ""],
     [first |-> {"Socket(", "ServerSocket("}, ws |-> 0, then |-> ""],
     [first |-> {"ServerSocket("}, ws |-> 0, then |-> ""],
     [first |-> {"Class.forName"}, ws |-> 0, then |-> ""],
     [first |-> {"javax.script"}, ws |-> 0, then |-> ""],
     [first |-> {"native"}, ws |-> 1, then |-> ""],
     [first |-> {"synchronized"}, ws |-> 2, then |-> "("],
     [first |-> {"wait("}, ws |-> 0, then |-> ""],
     [first |-> {"notify("}, ws |-> 0, then |-> ""] >>

\* pattern.test(code) on a fresh regular expression
PatternTest(p, code) == Matches(code.toks, p.first, p.ws, p.then)

\* a filter that knows only the patterns without white space
containsMaliciousCodeLiteralOnly(code) ==
  \E k \in 1..Len(dangerousPatterns) :
    dangerousPatterns[k].ws = 0 /\ PatternTest(dangerousPatterns[k], code)

containsMaliciousCode(code) ==
  \E k \in 1..Len(dangerousPatterns) : PatternTest(dangerousPatterns[k], code)

\* ------------------------------------------------------------ ensureMainClass
\* a template whose class has another name
WrapPrefixOtherClass ==
  << T_PUBLIC, "class App", T_SP, T_OPEN, T_NL,
     T_IND4, T_PSVM, T_NL,
     T_IND8, T_CSTART, T_NL >>

WrapPrefix ==
  << T_PUBLIC, T_CLASS, T_SP, T_OPEN, T_NL,
     T_IND4, T_PSVM, T_NL,
     T_IND8, T_CSTART, T_NL >>

WrapSuffix ==
  << T_NL, T_IND8, T_CEND, T_NL, T_IND4, T_CLOSE, T_NL, T_CLOSE >>

ensureMainClass(code) ==
  IF Includes(code.toks, <<T_PUBLIC, T_CLASS>>) \/ Includes(code.toks, <<T_CLASS>>)
  THEN code
  ELSE [code EXCEPT !.toks = WrapPrefix \o code.toks \o WrapSuffix]

\* --------------------------------------------------------------- file names
\* A name of the scratch directory.  The stem Main_<Date.now()>_<random> of
\* a request is [cls |-> "Main", id |-> n] with n >= 1 standing for the suffix;
\* id 0 is the bare class name, as in Main.class.
Name(cls, id, ext) == [cls |-> cls, id |-> id, ext |-> ext]

\* ----------------------------------------------------------------- javac
\* The compilation unit javac reads from a source text: white space and line
\* comments dropped, then   Class+   with
\*   Class  ::= ["public "] "class Main" "{" Method* "}"
\*   Method ::= T_PSVM Stmt* "}"            Stmt ::= T_PRINT | T_LOOP
\* (a statement after while(true){} is unreachable, which javac rejects).
RECURSIVE StripTrivia(_, _)
StripTrivia(s, inComment) ==
  IF s = <<>> THEN <<>>
  ELSE IF inComment
       THEN StripTrivia(Tail(s), Head(s) # T_NL)
       ELSE IF Head(s) \in LineComment THEN StripTrivia(Tail(s), TRUE)
       ELSE IF Head(s) \in WhiteSpace THEN StripTrivia(Tail(s), FALSE)
       ELSE <<Head(s)>> \o StripTrivia(Tail(s), FALSE)

NoClass == [pub |-> FALSE, main |-> FALSE, stmts |-> <<>>]

\* st: "top" | "pub" | "cls" | "body" | "main" | "dead";  cur: the class being
\* read;  acc: the classes read so far.  The result is [ok, classes].
RECURSIVE ParseUnit(_, _, _, _)
ParseUnit(s, st, cur, acc) ==
  LET bad == [ok |-> FALSE, classes |-> <<>>]
      t   == Head(s)
      r   == Tail(s)
  IN
  IF s = <<>>
  THEN IF st = "top" /\ acc # <<>> THEN [ok |-> TRUE, classes |-> acc] ELSE bad
  ELSE CASE st = "top" /\ t = T_PUBLIC -> ParseUnit(r, "pub", [NoClass EXCEPT !.pub = TRUE], acc)
         [] st = "top" /\ t = T_CLASS  -> ParseUnit(r, "cls", NoClass, acc)
         [] st = "pub" /\ t = T_CLASS  -> ParseUnit(r, "cls", cur, acc)
         [] st = "cls" /\ t = T_OPEN   -> ParseUnit(r, "body", cur, acc)
         [] st = "body" /\ t = T_PSVM /\ ~cur.main
                                       -> ParseUnit(r, "main", [cur EXCEPT !.main = TRUE], acc)
         [] st = "body" /\ t = T_CLOSE -> ParseUnit(r, "top", NoClass, Append(acc, cur))
         [] st = "main" /\ t = T_PRINT -> ParseUnit(r, "main", [cur EXCEPT !.stmts = Append(@, t)], acc)
         [] st = "main" /\ t = T_LOOP  -> ParseUnit(r, "dead", [cur EXCEPT !.stmts = Append(@, t)], acc)
         [] st \in {"main", "dead"} /\ t = T_CLOSE -> ParseUnit(r, "body", cur, acc)
         [] OTHER -> bad

Parse(toks) == ParseUnit(StripTrivia(toks, FALSE), "top", NoClass, <<>>)

\* server.js:19   tempDir = path.join(os.tmpdir(), 'javalab-temp'), as the
\* sequence of its directory names.  os.tmpdir() is $TMPDIR when that is set
\* and /tmp otherwise.
VARIABLE tempDir

OsTmpdirs == { <<"/tmp">>, <<"/var", "/tmp">>, <<"/srv">> }
TempDirs == { d \o <<"/javalab-temp">> : d \in OsTmpdirs }

\* Diagnostics of the tools, as token sequences.  P_DIR is the output
\* directory and P_SRC the path of the source file given on the command line.
P_DIR == tempDir
P_SRC == tempDir \o <<"/Main_N.java">>
E_NOFILE   == <<"error: ", "file not found: ">> \o P_SRC
E_SYNTAX   == P_SRC \o <<":1: ", "error: ", "illegal start of expression">>
E_PUBLIC   == P_SRC \o <<":1: ", "error: ",
                "class Main is public, should be declared in a file named Main.java">>
E_DUP      == P_SRC \o <<":1: ", "error: ", "duplicate class: Main">>
E_NOCLASS  == <<"Error: Could not find or load main class Main_N">>
E_NOMAIN   == <<"Error: Main method not found in class Main_N">>
O_HI       == "hi\n"

\* javac -d <outputDir> "<filePath>" run to its end: `src` is the content of
\* the file (NoFile when it is not there), `stem` the name of the file
\* without .java.  A public class must be declared in a file of its name;
\* every class is written to <class name>.class in the output directory.
NoFile == [text |-> <<"<no file>">>, main |-> FALSE, by |-> 0, mtime |-> 0,
           locked |-> FALSE]

Javac(stem, src) ==
  LET p == Parse(src.text) IN
  IF src = NoFile
    THEN [ok |-> FALSE, stderr |-> E_NOFILE, classes |-> <<>>]
  ELSE IF ~p.ok
    THEN [ok |-> FALSE, stderr |-> E_SYNTAX, classes |-> <<>>]
  ELSE IF Len(p.classes) > 1
    THEN [ok |-> FALSE, stderr |-> E_DUP, classes |-> <<>>]
  ELSE IF \E i \in 1..Len(p.classes) : p.classes[i].pub /\ stem # [cls |-> "Main", id |-> 0]
    THEN [ok |-> FALSE, stderr |-> E_PUBLIC, classes |-> <<>>]
  ELSE [ok |-> TRUE, stderr |-> <<>>, classes |-> p.classes]

\* the standard output of a main method: one line per print statement
RECURSIVE Prints(_)
Prints(stmts) ==
  IF stmts = <<>> THEN <<>>
  ELSE (IF Head(stmts) = T_PRINT THEN <<O_HI>> ELSE <<>>) \o Prints(Tail(stmts))

\* cd "<classPath>" && java <className>: what the runtime does with the class
\* file <className>.class of the directory (`cf`, NoFile when it is not there).
\* loops: the program never ends by itself.
Java(cf) ==
  IF cf = NoFile
    THEN [stdout |-> <<>>, stderr |-> E_NOCLASS, loops |-> FALSE, code |-> 1]
  ELSE IF ~cf.main
    THEN [stdout |-> <<>>, stderr |-> E_NOMAIN, loops |-> FALSE, code |-> 1]
  ELSE [stdout |-> Prints(cf.text), stderr |-> <<>>,
        loops |-> \E i \in 1..Len(cf.text) : cf.text[i] = T_LOOP, code |-> 0]

\* -------------------------------------------------------------- the inputs
B_UNDEFINED == Code("undefined", FALSE, <<>>, 0)
B_NUMBER    == Code("number", TRUE, <<>>, 0)
B_EMPTY     == Str(<<>>)
\* System.out.println("hi");
B_BARE      == Str(<<T_PRINT>>)
\* class Main{public static void main(String[] args) {System.out.println("hi");}}
B_MAIN      == Str(<<T_CLASS, T_OPEN, T_PSVM, T_PRINT, T_CLOSE, T_CLOSE>>)
B_EXEC      == Str(<<"Runtime.getRuntime()", "exec(">>)
B_NATIVEWS  == Str(<<"native", T_NL>>)
B_SYNC      == Str(<<"synchronized", T_SP, "(">>)
\* "int x = ;" and spaces up to 10000 / 10001 characters
B_MAXLEN    == StrPad(<<T_BAD, T_FILL>>, MaxCodeLength - 9)
B_OVERLEN   == StrPad(<<T_BAD, T_FILL>>, MaxCodeLength - 8)

Bodies ==
  { B_UNDEFINED, B_NUMBER, B_EMPTY, B_BARE, B_MAIN,
    B_EXEC, B_NATIVEWS, B_SYNC, B_MAXLEN, B_OVERLEN }

NoCode == Code("none", FALSE, <<>>, 0)

\* ------------------------------------------------------------------- state
VARIABLES
  pc,        \* pc[r]: "idle" | "compiling" | "executing" | "done"
  code,      \* code[r]: req.body.code
  fs,        \* the scratch directory: file name -> content
  child,     \* child[r]: the ChildProcess of the exec() the request awaits
  procs,     \* the javac / java processes alive: <<r, "javac" | "java">>
  promise,   \* promise[r]: the promise executeJava returned
  response,  \* response[r]: what res.json was given
  wrote,     \* wrote[r]: the names written for r, by the handler or its javac
  touched,   \* touched[r]: the names r wrote, had read, or unlinked
  spawned,   \* spawned[r]: the number of exec() calls made for r
  fired,     \* fired[r]: the commands of r whose exec timeout elapsed
  resolveLog,      \* resolveLog[r]: the calls of executeJava's resolve, in order
  leftAtResponse,  \* the files last written for r, there when r was answered
  aliveAtResponse, \* the processes of r alive when r was answered
  now,       \* Date.now(), in milliseconds
  startTime, \* startTime[r]: the handler's startTime while r is served
  lastSweep, \* the run of cleanupTempFiles that has just ended, if one has
  normalized, \* a text and what ensureMainClass makes of it, applied again and again
  isRunning,  \* script.js:17   the browser client's flag
  codeEditor, \* the text in the editor of the page
  fetches,    \* the requests the page has sent and not yet seen completed
  statusText, \* script.js:12   the status line of the page
  outputType, \* what showOutput showed last
  runs,       \* the runs the page has started
  lastCall    \* how the last call of runCode ended

vars == << pc, code, fs, child, procs, promise, response, wrote, touched,
           spawned, fired, resolveLog, leftAtResponse, aliveAtResponse,
           tempDir, now, startTime, lastSweep, normalized,
           isRunning, codeEditor, fetches, statusText, outputType, runs, lastCall >>

\* the page in the browser
client == << isRunning, codeEditor, fetches, statusText, outputType, runs, lastCall >>

\* what the server leaves as it is
aside == << normalized, client >>

\* what a request leaves as it is
host == << tempDir, now, aside >>

\* script.js:17 and 34: the page has been loaded and nothing has been run
ClientIdle ==
  /\ isRunning = FALSE
  /\ fetches = 0
  /\ statusText = "Ready to compile"
  /\ outputType = "none"
  /\ runs = 0
  /\ lastCall = "none"

\* no page is open
NoClient == ClientIdle /\ codeEditor = <<>>

\* the last step was no run of cleanupTempFiles
NoSweep == [ran |-> FALSE, at |-> 0, ages |-> <<>>, gone |-> {}, removed |-> {},
            inFlight |-> {}, warned |-> FALSE]

NoChild == [state |-> "none", killed |-> FALSE, error |-> FALSE,
            stdout |-> <<>>, stderr |-> <<>>]
NoPromise == [state |-> "none", output |-> <<>>, timedOut |-> FALSE]
NoResponse == [status |-> 0, success |-> FALSE, error |-> <<>>, output |-> <<>>,
               timed |-> FALSE, via |-> "none"]

\* the requests have yet to arrive
Idle ==
  /\ pc = [r \in Req |-> "idle"]
  /\ code = [r \in Req |-> NoCode]
  /\ child = [r \in Req |-> NoChild]
  /\ procs = {}
  /\ promise = [r \in Req |-> NoPromise]
  /\ response = [r \in Req |-> NoResponse]
  /\ wrote = [r \in Req |-> {}]
  /\ touched = [r \in Req |-> {}]
  /\ spawned = [r \in Req |-> 0]
  /\ fired = [r \in Req |-> {}]
  /\ resolveLog = [r \in Req |-> <<>>]
  /\ leftAtResponse = [r \in Req |-> {}]
  /\ aliveAtResponse = [r \in Req |-> {}]
  /\ startTime = [r \in Req |-> 0]
  /\ now = 0
  /\ lastSweep = NoSweep

\* the server has started on a host whose os.tmpdir() is /tmp
Init ==
  /\ Idle
  /\ normalized = <<>>
  /\ NoClient
  /\ tempDir = <<"/tmp", "/javalab-temp">>
  /\ fs = [n \in {} |-> NoFile]

\* ------------------------------------------------------------ the file system
FileAt(dir, n) == IF n \in DOMAIN dir THEN dir[n] ELSE NoFile

\* fs.writeFileSync / a class file written by javac
WriteFile(dir, n, text, main, r) ==
  [m \in DOMAIN dir \cup {n} |->
     IF m = n THEN [text |-> text, main |-> main, by |-> r, mtime |-> now,
                    locked |-> FileAt(dir, n).locked]
     ELSE dir[m]]

Unlink(dir, n) == [m \in DOMAIN dir \ {n} |-> dir[m]]

\* fs.unlinkSync: the file is removed, or the call throws (the system denies
\* it for a locked file)
unlinkSync(dir, n) ==
  IF dir[n].locked THEN [dir |-> dir, threw |-> TRUE]
  ELSE [dir |-> Unlink(dir, n), threw |-> FALSE]

\* a cleanupFile without its try / catch
Uncaught(result) == result

\* server.js:276-278   catch (error) { console.warn(...) }
Caught(result) == [result EXCEPT !.threw = FALSE]

\* cleanupFile: unlink the file when it is there; nothing is thrown
cleanupFile(dir, n) ==
  IF n \in DOMAIN dir THEN Caught(unlinkSync(dir, n))
  ELSE [dir |-> dir, threw |-> FALSE]

\* the class files javac leaves in the output directory
RECURSIVE WriteClasses(_, _, _)
WriteClasses(dir, classes, r) ==
  IF classes = <<>> THEN dir
  ELSE WriteClasses(
         WriteFile(dir, Name("Main", 0, "class"), Head(classes).stmts, Head(classes).main, r),
         Tail(classes), r)

ClassNames(classes) == IF classes = <<>> THEN {} ELSE {Name("Main", 0, "class")}

\* `Main_${Date.now()}_${Math.random()...}`: taken to differ between requests
filename(r) == [cls |-> "Main", id |-> r]
javaFilePath(r)  == Name("Main", r, "java")
classFilePath(r) == Name("Main", r, "class")

\* ------------------------------------------------------------ message texts
\* an || that always takes its right operand
OrRight(a, b) == b

\* a || b on strings
Or(a, b) == IF a # <<>> THEN a ELSE b

\* error.message of a failed exec: `Command failed: ` and the command
CommandFailed ==
  <<"Command failed: javac -d ">> \o P_DIR \o <<" \"">> \o P_SRC \o <<"\"">>

\* the tokens made of characters other than a colon and white space: the
\* directory and file names of a path, and a closing quote
PathChars == { "/tmp", "/var", "/srv", "/javalab-temp", "/Main_N.java", "\"" }

\* the rest of a text after its longest prefix matching [^:\s]*
RECURSIVE SkipPath(_)
SkipPath(e) ==
  IF e # <<>> /\ Head(e) \in PathChars THEN SkipPath(Tail(e)) ELSE e

\* formatCompilationError, server.js:251-255: /\/tmp\/[^:\s]+/g turns `/tmp/`
\* and what follows it, up to the next colon or white space (a closing quote
\* included), into Main.java; `error:` is marked; `Main.java:` becomes `Line `
RECURSIVE FormatTokens(_)
FormatTokens(e) ==
  IF e = <<>> THEN <<>>
  ELSE IF Head(e) = "/tmp" /\ Len(e) > 1 /\ e[2] \in PathChars \ {"\""}
  THEN LET rest == SkipPath(Tail(e))
       IN IF rest # <<>> /\ Head(rest) = ":1: "
          THEN <<"Line ", "1: ">> \o FormatTokens(Tail(rest))
          ELSE <<"Main.java">> \o FormatTokens(rest)
  ELSE <<IF Head(e) = "error: " THEN "[x] Error: " ELSE Head(e)>>
         \o FormatTokens(Tail(e))

formatCompilationError(error) ==
  <<"[x] Compilation Failed\n">> \o FormatTokens(error) \o <<"\n\nTips:">>

TimeoutText == <<"Error: Program execution timed out (5 seconds)">>

\* timed: the body has an executionTime field; via: the branch that answered
Response(status, success, error, output, timed, via) ==
  [status |-> status, success |-> success, error |-> error, output |-> output,
   timed |-> timed, via |-> via]

\* --------------------------------------------------- POST /compile, part one
\* requests are numbered in the order they arrive
Arrives(r) == pc[r] = "idle" /\ (IF r = 1 THEN TRUE ELSE pc[r - 1] # "idle")

\* server.js:55   !code || typeof code !== 'string'
Invalid(b) == Falsy(b) \/ b.kind # "string"

\* a size check that also refuses a text of exactly the maximum length
TooLongOffByOne(b) == Length(b) >= MaxCodeLength

\* server.js:64   code.length > 10000
TooLong(b) == Length(b) > MaxCodeLength

Accepted(b) == ~Invalid(b) /\ ~TooLong(b) /\ ~containsMaliciousCode(b)

\* res.json(...): the request is answered; what it leaves behind is recorded
Finish(r, resp, newFs, newProcs) ==
  /\ pc' = [pc EXCEPT ![r] = "done"]
  /\ response' = [response EXCEPT ![r] = resp]
  /\ leftAtResponse' = [leftAtResponse EXCEPT ![r] = {n \in DOMAIN newFs : newFs[n].by = r}]
  /\ aliveAtResponse' = [aliveAtResponse EXCEPT ![r] = {q \in newProcs : q[1] = r}]
  /\ startTime' = [startTime EXCEPT ![r] = 0]

Reject(r, b, resp) ==
  /\ code' = [code EXCEPT ![r] = b]
  /\ Finish(r, resp, fs, procs)
  /\ UNCHANGED host
  /\ lastSweep' = NoSweep
  /\ UNCHANGED <<fs, child, procs, promise, wrote, touched, spawned, fired, resolveLog>>

\* server.js:55-61
PostInvalid(r) ==
  \E b \in Bodies :
    /\ Arrives(r)
    /\ Invalid(b)
    /\ Reject(r, b, Response(400, FALSE, <<"No code provided">>,
                             <<"Error: No Java code to compile">>, FALSE, "invalid"))

\* server.js:64-70
PostTooLong(r) ==
  \E b \in Bodies :
    /\ Arrives(r)
    /\ ~Invalid(b) /\ TooLong(b)
    /\ Reject(r, b, Response(400, FALSE, <<"Code too long (max 10,000 characters)">>,
                             <<"Error: Code exceeds maximum length (10,000 characters)">>,
                             FALSE, "tooLong"))

\* server.js:73-79
PostMalicious(r) ==
  \E b \in Bodies :
    /\ Arrives(r)
    /\ ~Invalid(b) /\ ~TooLong(b) /\ containsMaliciousCode(b)
    /\ Reject(r, b, Response(400, FALSE, <<"Potentially malicious code detected">>,
                             <<"Security Error: Code contains restricted patterns">>,
                             FALSE, "malicious"))

\* error.message of an unlink the system denies
UnlinkDenied == <<"EPERM: operation not permitted, unlink">>

\* the catch block, server.js:136-145
InternalError(message) ==
  Response(500, FALSE, message, <<"Server Error: ">> \o message, FALSE, "internal")

\* exec(command, {timeout}, callback): a shell is started to run the command
Spawn == [NoChild EXCEPT !.state = "running"]

\* server.js:81-95, up to the await: the source file is written and javac
\* is started
PostCompile(r) ==
  \E b \in Bodies :
    /\ Arrives(r)
    /\ Accepted(b)
    /\ code' = [code EXCEPT ![r] = b]
    /\ fs' = WriteFile(fs, javaFilePath(r), ensureMainClass(b).toks, FALSE, r)
    /\ wrote' = [wrote EXCEPT ![r] = @ \cup {javaFilePath(r)}]
    /\ touched' = [touched EXCEPT ![r] = @ \cup {javaFilePath(r)}]
    /\ child' = [child EXCEPT ![r] = Spawn]
    /\ procs' = procs \cup {<<r, "javac">>}
    /\ spawned' = [spawned EXCEPT ![r] = @ + 1]
    /\ pc' = [pc EXCEPT ![r] = "compiling"]
    /\ startTime' = [startTime EXCEPT ![r] = now]
    /\ UNCHANGED host
    /\ lastSweep' = NoSweep
    /\ UNCHANGED <<promise, response, fired, resolveLog, leftAtResponse, aliveAtResponse>>

\* server.js:91 throws (the disk is full, the directory is gone): the file
\* may have been created before the write failed; the catch block answers
PostWriteThrows(r) ==
  \E b \in Bodies, created \in BOOLEAN :
    /\ Arrives(r)
    /\ Accepted(b)
    /\ code' = [code EXCEPT ![r] = b]
    /\ fs' = IF created THEN WriteFile(fs, javaFilePath(r), <<>>, FALSE, r) ELSE fs
    /\ wrote' = [wrote EXCEPT ![r] = IF created THEN @ \cup {javaFilePath(r)} ELSE @]
    /\ touched' = [touched EXCEPT ![r] = @ \cup {javaFilePath(r)}]
    /\ Finish(r, InternalError(<<"ENOSPC: no space left on device, write">>), fs', procs)
    /\ UNCHANGED host
    /\ lastSweep' = NoSweep
    /\ UNCHANGED <<child, procs, promise, spawned, fired, resolveLog>>

\* exec throws inside compileJava's promise (the process cannot be created):
\* the promise rejects and the catch block answers
PostSpawnThrows(r) ==
  \E b \in Bodies :
    /\ Arrives(r)
    /\ Accepted(b)
    /\ code' = [code EXCEPT ![r] = b]
    /\ fs' = WriteFile(fs, javaFilePath(r), ensureMainClass(b).toks, FALSE, r)
    /\ wrote' = [wrote EXCEPT ![r] = @ \cup {javaFilePath(r)}]
    /\ touched' = [touched EXCEPT ![r] = @ \cup {javaFilePath(r)}]
    /\ Finish(r, InternalError(<<"spawn ENOMEM">>), fs', procs)
    /\ UNCHANGED host
    /\ lastSweep' = NoSweep
    /\ UNCHANGED <<child, procs, promise, spawned, fired, resolveLog>>

\* ------------------------------------------------------------ the compiler
\* the child has ended: exec's callback is due
Closed(c, killed, error, stdout, stderr) ==
  [c EXCEPT !.state = "closed", !.killed = killed, !.error = error,
            !.stdout = stdout, !.stderr = stderr]

\* javac runs to its end: it reads the source file, writes the class files
\* and exits; exec sees it end unless the child was killed before
JavacExit(r) ==
  /\ <<r, "javac">> \in procs
  /\ LET res == Javac(filename(r), FileAt(fs, javaFilePath(r)))
     IN /\ fs' = IF res.ok THEN WriteClasses(fs, res.classes, r) ELSE fs
        /\ wrote' = [wrote EXCEPT ![r] = @ \cup ClassNames(res.classes)]
        /\ touched' = [touched EXCEPT ![r] = @ \cup {javaFilePath(r)} \cup ClassNames(res.classes)]
        /\ child' = IF pc[r] = "compiling" /\ child[r].state = "running"
                    THEN [child EXCEPT ![r] = Closed(@, FALSE, ~res.ok, <<>>, res.stderr)]
                    ELSE child
  /\ procs' = procs \ {<<r, "javac">>}
  /\ UNCHANGED startTime
  /\ UNCHANGED host
  /\ lastSweep' = NoSweep
  /\ UNCHANGED <<pc, code, promise, response, spawned, fired, resolveLog,
                 leftAtResponse, aliveAtResponse>>

\* the timeout of exec elapses while the child runs: the child, which is the
\* shell exec started, is sent SIGTERM.  direct: the command's process is the
\* shell's own process (the shell replaced itself by the command, as bash
\* does); otherwise it is a child of the shell (as with dash), which the
\* signal does not reach, and it runs on.
Kill(r, cmd, direct) == IF direct THEN procs \ {<<r, cmd>>} ELSE procs

\* server.js:155   { timeout: 10000 }
CompileTimeout(r) ==
  \E direct \in BOOLEAN :
  /\ pc[r] = "compiling"
  /\ child[r].state = "running"
  /\ child' = [child EXCEPT ![r] = Closed(@, TRUE, TRUE, <<>>, <<>>)]
  /\ procs' = Kill(r, "javac", direct)
  /\ fired' = [fired EXCEPT ![r] = @ \cup {"javac"}]
  /\ UNCHANGED startTime
  /\ UNCHANGED host
  /\ lastSweep' = NoSweep
  /\ UNCHANGED <<pc, code, fs, promise, response, wrote, touched, spawned, resolveLog,
                 leftAtResponse, aliveAtResponse>>

\* a compileJava whose promise is resolved only when exec reports no error
SettledOnSuccess(c) == c.state = "closed" /\ ~c.error

\* server.js:155-167: exec's callback resolves the promise of compileJava in
\* both of its branches, so the handler resumes whenever the callback has run
Settled(c) == c.state = "closed"

\* a compileJava that reports success whatever exec reports
compileResultIgnoringError(c) == [success |-> TRUE, error |-> <<>>]

\* server.js:155-167: what compileJava resolves with
compileResult(c) ==
  IF c.error
  THEN [success |-> FALSE, error |-> Or(c.stderr, Or(c.stdout, CommandFailed))]
  ELSE [success |-> TRUE, error |-> <<>>]

\* server.js:97-106
CompileFailed(r) ==
  /\ pc[r] = "compiling"
  /\ Settled(child[r])
  /\ ~compileResult(child[r]).success
  /\ LET cleaned == cleanupFile(fs, javaFilePath(r))
     IN /\ fs' = cleaned.dir
        /\ IF cleaned.threw
           THEN Finish(r, InternalError(UnlinkDenied), fs', procs)
           ELSE Finish(r, Response(200, FALSE, <<>>,
                                   formatCompilationError(compileResult(child[r]).error),
                                   TRUE, "compileError"), fs', procs)
  /\ touched' = [touched EXCEPT ![r] = @ \cup {javaFilePath(r)}]
  /\ child' = [child EXCEPT ![r] = NoChild]
  /\ UNCHANGED host
  /\ lastSweep' = NoSweep
  /\ UNCHANGED <<code, procs, promise, wrote, spawned, fired, resolveLog>>

\* server.js:109, 172-195: the compiler succeeded and java is started
CompileSucceeded(r) ==
    /\ pc[r] = "compiling"
    /\ Settled(child[r])
    /\ compileResult(child[r]).success
    /\ child' = [child EXCEPT ![r] = Spawn]
    /\ procs' = procs \cup {<<r, "java">>}
    /\ promise' = [promise EXCEPT ![r] = [NoPromise EXCEPT !.state = "pending"]]
    /\ spawned' = [spawned EXCEPT ![r] = @ + 1]
    /\ pc' = [pc EXCEPT ![r] = "executing"]
    /\ UNCHANGED startTime
    /\ UNCHANGED host
    /\ lastSweep' = NoSweep
    /\ UNCHANGED <<code, fs, response, wrote, touched, fired, resolveLog,
                   leftAtResponse, aliveAtResponse>>

\* exec, or childProcess.stdin.end(), throws inside executeJava's promise:
\* the promise rejects and the catch block answers
ExecuteSpawnThrows(r) ==
  /\ pc[r] = "compiling"
  /\ Settled(child[r])
  /\ compileResult(child[r]).success
  /\ child' = [child EXCEPT ![r] = NoChild]
  /\ promise' = [promise EXCEPT ![r] = [NoPromise EXCEPT !.state = "rejected"]]
  /\ Finish(r, InternalError(<<"spawn ENOMEM">>), fs, procs)
  /\ UNCHANGED host
  /\ lastSweep' = NoSweep
  /\ UNCHANGED <<code, fs, procs, wrote, touched, spawned, fired, resolveLog>>

\* ------------------------------------------------------------- the runtime
\* java runs to its end (a program that loops has none)
JavaExit(r) ==
  /\ <<r, "java">> \in procs
  /\ LET res == Java(FileAt(fs, classFilePath(r)))
     IN /\ ~res.loops
        /\ child' = IF pc[r] = "executing" /\ child[r].state = "running"
                    THEN [child EXCEPT ![r] = Closed(@, FALSE, res.code # 0, res.stdout, res.stderr)]
                    ELSE child
  /\ procs' = procs \ {<<r, "java">>}
  /\ touched' = [touched EXCEPT ![r] = @ \cup {classFilePath(r)}]
  /\ UNCHANGED startTime
  /\ UNCHANGED host
  /\ lastSweep' = NoSweep
  /\ UNCHANGED <<pc, code, fs, promise, response, wrote, spawned, fired, resolveLog,
                 leftAtResponse, aliveAtResponse>>

\* calling resolve on a promise: only the first call settles it
Resolve(p, value) ==
  IF p.state = "pending"
  THEN [state |-> "resolved", output |-> value.output, timedOut |-> value.timedOut]
  ELSE p

\* what exec has collected of the output of a java process that is still
\* running: the lines a looping program printed before its loop; a process
\* that has yet to end by itself has reported nothing
OutputSoFar(r) ==
  LET res == Java(FileAt(fs, classFilePath(r)))
  IN IF res.loops THEN [stdout |-> res.stdout, stderr |-> <<>>]
     ELSE [stdout |-> <<>>, stderr |-> <<>>]

\* what the timeout would do if the 'timeout' listener of server.js:185-191
\* ran when exec's timeout elapses
ExecuteTimeoutResolves(r) ==
  \E direct \in BOOLEAN :
    /\ pc[r] = "executing"
    /\ child[r].state = "running"
    /\ child' = [child EXCEPT ![r] =
                   Closed(@, TRUE, TRUE, OutputSoFar(r).stdout, OutputSoFar(r).stderr)]
    /\ procs' = Kill(r, "java", direct)
    /\ fired' = [fired EXCEPT ![r] = @ \cup {"java"}]
    /\ promise' = [promise EXCEPT ![r] = Resolve(@, [output |-> <<>>, timedOut |-> TRUE])]
    /\ resolveLog' = [resolveLog EXCEPT ![r] =
                        Append(@, [path |-> "timeout", output |-> <<>>, timedOut |-> TRUE])]
    /\ UNCHANGED startTime
    /\ UNCHANGED host
    /\ lastSweep' = NoSweep
    /\ UNCHANGED <<pc, code, fs, response, wrote, touched, spawned,
                   leftAtResponse, aliveAtResponse>>

\* server.js:177   { timeout: 5000 }: the child is killed; what it had written
\* to its output before is kept.  A ChildProcess emits no 'timeout'
\* event, so the listener of server.js:185-191 does not run: exec reports the
\* end of the killed child through its callback, like any other end.
ExecuteTimeout(r) ==
  \E direct \in BOOLEAN :
    /\ pc[r] = "executing"
    /\ child[r].state = "running"
    /\ child' = [child EXCEPT ![r] =
                   Closed(@, TRUE, TRUE, OutputSoFar(r).stdout, OutputSoFar(r).stderr)]
    /\ procs' = Kill(r, "java", direct)
    /\ fired' = [fired EXCEPT ![r] = @ \cup {"java"}]
    /\ UNCHANGED startTime
    /\ UNCHANGED host
    /\ lastSweep' = NoSweep
    /\ UNCHANGED <<pc, code, fs, promise, response, wrote, touched, spawned, resolveLog,
                   leftAtResponse, aliveAtResponse>>

\* server.js:177-182 and 111-134: exec's callback resolves the promise, the
\* handler resumes, removes its two files and answers
ExecuteCallback(r) ==
  /\ pc[r] = "executing"
  /\ child[r].state = "closed"
  /\ LET value == [output |-> Or(child[r].stdout, child[r].stderr), timedOut |-> FALSE]
         executionResult == Resolve(promise[r], value)
     IN /\ promise' = [promise EXCEPT ![r] = executionResult]
        /\ resolveLog' = [resolveLog EXCEPT ![r] =
                            Append(@, [path |-> "exit", output |-> value.output,
                                       timedOut |-> value.timedOut])]
        /\ LET first == cleanupFile(fs, javaFilePath(r))
               second == IF first.threw THEN first
                         ELSE cleanupFile(first.dir, classFilePath(r))
           IN /\ fs' = second.dir
              /\ IF second.threw
                 THEN Finish(r, InternalError(UnlinkDenied), fs', procs)
                 ELSE IF executionResult.timedOut
                 THEN Finish(r, Response(200, FALSE, <<>>, TimeoutText, TRUE, "timeout"),
                             fs', procs)
                 ELSE Finish(r, Response(200, TRUE, <<>>, executionResult.output, TRUE,
                                         "success"), fs', procs)
        /\ touched' = [touched EXCEPT ![r] = @ \cup {javaFilePath(r), classFilePath(r)}]
        /\ child' = [child EXCEPT ![r] = NoChild]
  /\ UNCHANGED host
  /\ lastSweep' = NoSweep
  /\ UNCHANGED <<code, procs, wrote, spawned, fired>>

\* ------------------------------------------------------------ specification
Next ==
  \E r \in Req :
    \/ PostInvalid(r)
    \/ PostTooLong(r)
    \/ PostMalicious(r)
    \/ PostCompile(r)
    \/ PostWriteThrows(r)
    \/ PostSpawnThrows(r)
    \/ JavacExit(r)
    \/ CompileTimeout(r)
    \/ CompileFailed(r)
    \/ CompileSucceeded(r)
    \/ ExecuteSpawnThrows(r)
    \/ JavaExit(r)
    \/ ExecuteTimeout(r)
    \/ ExecuteCallback(r)

Spec == Init /\ [][Next]_vars

\* ------------------------------------------------------ the reaper and time
\* server.js:155   { timeout: 10000 }
CompileTimeoutMs == 10000
\* server.js:177   { timeout: 5000 }
ExecuteTimeoutMs == 5000
\* a retention no longer than a request may last
maxAgeShort == CompileTimeoutMs
\* server.js:286   maxAge = 5 * 60 * 1000
maxAge == 300000

\* the requests served while the host acts, and the ticks of the clock
NEnvReq == 1
EnvReq == 1..NEnvReq
MaxTicks == 1
\* one tick of the clock: the longest a request may last
Step == CompileTimeoutMs + ExecuteTimeoutMs

InFlight(r) == pc[r] \in {"compiling", "executing"}

\* time passes; a request in flight is over once its compile timeout and its
\* execution timeout have passed
Tick ==
  /\ now + Step <= MaxTicks * Step
  /\ \A r \in Req :
       InFlight(r) => now + Step - startTime[r] <= CompileTimeoutMs + ExecuteTimeoutMs
  /\ now' = now + Step
  /\ lastSweep' = NoSweep
  /\ UNCHANGED << pc, code, fs, child, procs, promise, response, wrote, touched,
                  spawned, fired, resolveLog, leftAtResponse, aliveAtResponse,
                  tempDir, startTime, aside >>

\* fs.readdirSync: the names of the directory in the order the system lists
\* them.  The order only matters when a listed file is gone before the sweep
\* reaches it: any such file may be the first of the list.
RECURSIVE Listed(_)
Listed(names) ==
  IF names = {} THEN <<>>
  ELSE LET n == CHOOSE m \in names : TRUE IN <<n>> \o Listed(names \ {n})

Listings(names, gone) ==
  IF gone = {} THEN {Listed(names)}
  ELSE { <<n>> \o Listed(names \ {n}) : n \in gone }

\* an age test that also takes a file as old as maxAge
ExpiredAtMaxAge(mtime) == now - mtime >= maxAge

\* server.js:292   now - stats.mtimeMs > maxAge
Expired(mtime) == now - mtime > maxAge

RECURSIVE SweepFiles(_, _, _)

\* an exception that leaves forEach: the files after it are not looked at and
\* the catch of server.js:299-301 warns
AbortOnError(files, dir, gone) == [dir |-> dir, warned |-> TRUE]

\* server.js:295-297   catch (error) { /* ignore errors for individual files */ }
IgnoreError(files, dir, gone) == SweepFiles(files, dir, gone)

\* server.js:288-298: each listed file in turn; `gone` are the listed files
\* removed by someone else before the sweep reaches them (statSync throws)
SweepFiles(files, dir, gone) ==
  IF files = <<>> THEN [dir |-> dir, warned |-> FALSE]
  ELSE LET file == Head(files)
       IN IF file \in gone
          THEN IgnoreError(Tail(files), dir, gone)
          ELSE IF Expired(dir[file].mtime)
          THEN LET unlinked == unlinkSync(dir, file)
               IN IF unlinked.threw
                  THEN IgnoreError(Tail(files), dir, gone)
                  ELSE SweepFiles(Tail(files), unlinked.dir, gone)
          ELSE SweepFiles(Tail(files), dir, gone)

\* cleanupTempFiles, run by setInterval (server.js:282-305)
Sweep(gone) ==
    \E files \in Listings(DOMAIN fs, gone) :
      LET dir == [n \in DOMAIN fs \ gone |-> fs[n]]
          swept == SweepFiles(files, dir, gone)
      IN /\ fs' = swept.dir
         /\ lastSweep' =
              [ran |-> TRUE, at |-> now,
               ages |-> [n \in DOMAIN fs |-> now - fs[n].mtime],
               gone |-> gone,
               removed |-> DOMAIN dir \ DOMAIN swept.dir,
               inFlight |-> {n \in DOMAIN dir : fs[n].by \in Req /\ InFlight(fs[n].by)},
               warned |-> swept.warned]
         /\ UNCHANGED << pc, code, child, procs, promise, response, wrote, touched,
                         spawned, fired, resolveLog, leftAtResponse, aliveAtResponse,
                         tempDir, now, startTime, aside >>

\* another process removes a file of the scratch directory
ExternalDelete(n) ==
  /\ n \in DOMAIN fs
  /\ fs' = Unlink(fs, n)
  /\ lastSweep' = NoSweep
  /\ UNCHANGED << pc, code, child, procs, promise, response, wrote, touched,
                  spawned, fired, resolveLog, leftAtResponse, aliveAtResponse,
                  tempDir, now, startTime, aside >>

\* a sweep while nobody else removes files
SweepAlone == Sweep({})

\* a sweep while another process removes some of the files it has listed
SweepRaced == \E gone \in SUBSET DOMAIN fs : Sweep(gone)

SomeoneDeletes == \E n \in DOMAIN fs : ExternalDelete(n)

\* a file an earlier request left in the scratch directory
Leftover(mtime) ==
  [text |-> <<>>, main |-> FALSE, by |-> 0, mtime |-> mtime, locked |-> FALSE]

\* the server has started; the sweep at start-up (server.js:25) has kept a
\* source file that is as old as maxAge and a younger class file
InitReaper ==
  /\ Idle
  /\ normalized = <<>>
  /\ NoClient
  /\ tempDir = <<"/tmp", "/javalab-temp">>
  /\ fs = [n \in {Name("Main", 0, "java"), Name("Main", 0, "class")} |->
             IF n.ext = "java" THEN Leftover(0 - maxAge) ELSE Leftover(Step - maxAge)]

\* the requests, the clock and the sweeps
NextReaper ==
  \/ \E r \in EnvReq :
       \/ PostInvalid(r)
       \/ PostTooLong(r)
       \/ PostMalicious(r)
       \/ PostCompile(r)
       \/ PostWriteThrows(r)
       \/ PostSpawnThrows(r)
       \/ JavacExit(r)
       \/ CompileTimeout(r)
       \/ CompileFailed(r)
       \/ CompileSucceeded(r)
       \/ ExecuteSpawnThrows(r)
       \/ JavaExit(r)
       \/ ExecuteTimeout(r)
       \/ ExecuteCallback(r)
  \/ Tick
  \/ SweepAlone

SpecReaper == InitReaper /\ [][NextReaper]_vars

\* the server has been idle since it started: of the two files the sweep at
\* start-up kept, the source file is now older than maxAge and the class
\* file as old as maxAge
InitRace ==
  /\ Idle
  /\ normalized = <<>>
  /\ NoClient
  /\ tempDir = <<"/tmp", "/javalab-temp">>
  /\ fs = [n \in {Name("Main", 0, "java"), Name("Main", 0, "class")} |->
             IF n.ext = "java" THEN Leftover(0 - maxAge - Step) ELSE Leftover(0 - maxAge)]

\* the requests, the sweeps, and another process that removes files, also
\* while a sweep runs
NextRace ==
  \/ \E r \in EnvReq :
       \/ PostInvalid(r)
       \/ PostTooLong(r)
       \/ PostMalicious(r)
       \/ PostCompile(r)
       \/ PostWriteThrows(r)
       \/ PostSpawnThrows(r)
       \/ JavacExit(r)
       \/ CompileTimeout(r)
       \/ CompileFailed(r)
       \/ CompileSucceeded(r)
       \/ ExecuteSpawnThrows(r)
       \/ JavaExit(r)
       \/ ExecuteTimeout(r)
       \/ ExecuteCallback(r)
  \/ SweepRaced
  \/ SomeoneDeletes

SpecRace == InitRace /\ [][NextRace]_vars

\* ------------------------------------------------------ failing deletions
\* the system stops allowing a file of the scratch directory to be removed
\* (its permissions change, or a process holds it open where that locks it):
\* fs.unlinkSync throws for it from now on
Protect(n) ==
  /\ n \in DOMAIN fs
  /\ ~fs[n].locked
  /\ fs' = [fs EXCEPT ![n].locked = TRUE]
  /\ lastSweep' = NoSweep
  /\ UNCHANGED << pc, code, child, procs, promise, response, wrote, touched,
                  spawned, fired, resolveLog, leftAtResponse, aliveAtResponse,
                  tempDir, now, startTime, aside >>

SomeProtect == \E n \in DOMAIN fs : Protect(n)

\* the requests, on a host where deletions may fail
NextFaults ==
  \/ \E r \in EnvReq :
       \/ PostInvalid(r)
       \/ PostTooLong(r)
       \/ PostMalicious(r)
       \/ PostCompile(r)
       \/ PostWriteThrows(r)
       \/ PostSpawnThrows(r)
       \/ JavacExit(r)
       \/ CompileTimeout(r)
       \/ CompileFailed(r)
       \/ CompileSucceeded(r)
       \/ ExecuteSpawnThrows(r)
       \/ JavaExit(r)
       \/ ExecuteTimeout(r)
       \/ ExecuteCallback(r)
  \/ SomeProtect

SpecFaults == Init /\ [][NextFaults]_vars

\* ------------------------------------------------- requests that are served
\* the handler resumes after an await whose promise is settled
Resumes(r) ==
  \/ CompileFailed(r)
  \/ CompileSucceeded(r)
  \/ ExecuteSpawnThrows(r)
  \/ ExecuteCallback(r)

\* a subprocess that does not end by itself is ended by the timeout of exec,
\* so the callback of exec fires in the end; and the event loop runs every
\* continuation that is ready.  No request has to arrive.
Served ==
  \A r \in EnvReq :
    /\ WF_vars(CompileTimeout(r))
    /\ WF_vars(ExecuteTimeout(r))
    /\ WF_vars(Resumes(r))

\* the requests on a host where deletions may fail, served fairly
SpecServed == SpecFaults /\ Served

\* --------------------------------------------------- the normalizer alone
\* the texts ensureMainClass is given: up to MaxToks pieces, among them the
\* words `public ` and `class Main`, a statement, a line comment and a line end
MaxToks == 3
MaxApply == 2
Pieces == {T_PUBLIC, T_CLASS, T_PRINT, T_CSTART, T_NL}
Texts == UNION { [1..k -> Pieces] : k \in 0..MaxToks }

InitNormalize ==
  /\ Idle
  /\ NoClient
  /\ tempDir = <<"/tmp", "/javalab-temp">>
  /\ fs = [n \in {} |-> NoFile]
  /\ normalized \in { <<Str(text)>> : text \in Texts }

\* ensureMainClass is applied to what it returned
Normalize ==
  /\ Len(normalized) <= MaxApply
  /\ normalized' = Append(normalized, ensureMainClass(normalized[Len(normalized)]))
  /\ UNCHANGED << pc, code, fs, child, procs, promise, response, wrote, touched,
                  spawned, fired, resolveLog, leftAtResponse, aliveAtResponse,
                  tempDir, now, startTime, lastSweep, client >>

SpecNormalize == InitNormalize /\ [][Normalize]_vars

\* ------------------------------------------------------- the browser client
MaxRuns == 3

\* what the editor may hold: nothing, blank space, a statement, a class
\* without a main method, a whole program
Editors ==
  { <<>>,
    <<T_SP, T_NL>>,
    <<T_IND4, T_PRINT, T_NL>>,
    <<T_CLASS, T_SP, T_OPEN, T_NL, T_CLOSE>>,
    <<T_PUBLIC, T_CLASS, T_SP, T_OPEN, T_NL, T_IND4, T_PSVM, T_NL,
      T_IND8, T_PRINT, T_NL, T_IND4, T_CLOSE, T_NL, T_CLOSE>> }

\* String.prototype.trim
RECURSIVE TrimStart(_)
TrimStart(s) ==
  IF s # <<>> /\ Head(s) \in WhiteSpace THEN TrimStart(Tail(s)) ELSE s

RECURSIVE TrimEnd(_)
TrimEnd(s) ==
  IF s # <<>> /\ s[Len(s)] \in WhiteSpace THEN TrimEnd(SubSeq(s, 1, Len(s) - 1)) ELSE s

Trim(s) == TrimEnd(TrimStart(s))

\* script.js:114
HasMainClass(c) == Includes(c, <<T_PUBLIC, T_CLASS>>) \/ Includes(c, <<T_CLASS>>)

\* script.js:124
HasMainMethod(c) == Includes(c, <<T_PSVM>>)

InitClient ==
  /\ Idle
  /\ normalized = <<>>
  /\ tempDir = <<"/tmp", "/javalab-temp">>
  /\ fs = [n \in {} |-> NoFile]
  /\ ClientIdle
  /\ codeEditor \in Editors

server == << pc, code, fs, child, procs, promise, response, wrote, touched,
             spawned, fired, resolveLog, leftAtResponse, aliveAtResponse,
             tempDir, now, startTime, lastSweep, normalized >>

\* script.js:63-66: the user changes the text
Edit ==
  /\ \E text \in Editors : text # codeEditor /\ codeEditor' = text
  /\ UNCHANGED << isRunning, fetches, statusText, outputType, runs, lastCall >>
  /\ UNCHANGED server

\* a runCode that never finds a run under way
NeverBusy == FALSE

\* script.js:101   if (isRunning)
Busy == isRunning

\* script.js:100-155: runCode is called, by the button or by Ctrl+Enter, and
\* runs up to its first await.  confirmClass and confirmMethod are the user's
\* answers to the two questions, where they are asked.
RunCode ==
  \E confirmClass, confirmMethod \in BOOLEAN :
    LET c == Trim(codeEditor)
        ends(how) == /\ lastCall' = how
                     /\ UNCHANGED << isRunning, fetches, statusText, outputType, runs >>
    IN /\ runs < MaxRuns
       /\ IF Busy
          THEN ends("busy")
          ELSE IF c = <<>>
          THEN /\ lastCall' = "empty"
               /\ outputType' = "error"
               /\ UNCHANGED << isRunning, fetches, statusText, runs >>
          ELSE IF ~HasMainClass(c) /\ ~confirmClass
          THEN ends("declined")
          ELSE IF ~HasMainMethod(c) /\ ~confirmMethod
          THEN ends("declined")
          ELSE /\ isRunning' = TRUE
               /\ statusText' = "Compiling Java code..."
               /\ outputType' = "none"
               /\ fetches' = fetches + 1
               /\ runs' = runs + 1
               /\ lastCall' = "sent"
       /\ UNCHANGED codeEditor
       /\ UNCHANGED server

\* script.js:198-201: one fetch is over and the finally block has run
Completion(output, status) ==
  /\ fetches > 0
  /\ fetches' = fetches - 1
  /\ outputType' = output
  /\ statusText' = status
  /\ isRunning' = FALSE
  /\ UNCHANGED << codeEditor, runs, lastCall >>
  /\ UNCHANGED server

\* script.js:159-167: the server answered 200 with success
RunSucceeded == Completion("success", "Execution successful")

\* script.js:168-172: the server answered 200 without success
RunFailed == Completion("error", "Compilation failed")

\* script.js:173-177: the server answered 400 or 500
ServerError == Completion("error", "Server error")

\* script.js:179-196: fetch was rejected, or the body was no JSON
NetworkFailure == Completion("warning", "Using simulation mode")

Completes == RunSucceeded \/ RunFailed \/ ServerError \/ NetworkFailure

NextClient ==
  \/ Edit
  \/ RunCode
  \/ RunSucceeded
  \/ RunFailed
  \/ ServerError
  \/ NetworkFailure

\* every request the page has sent is completed in the end: the server
\* answers it, or the network fails
SpecClient == InitClient /\ [][NextClient]_vars /\ WF_vars(Completes)


\* ------------------------------------------------------------------ claims
Answered(r) == pc[r] = "done"

\* the standard output of the program a request submitted, once normalized
OwnOutput(b) ==
  LET p == Parse(ensureMainClass(b).toks)
  IN IF p.ok /\ p.classes[1].main THEN Prints(p.classes[1].stmts) ELSE <<>>

\* C1: a request answered through the success, compile-error or timeout
\* branch has left no file of its own in the scratch directory when it is
\* answered (neither its source file nor a class file compiled for it).
C1_NoFileLeftAtResponse ==
  \A r \in Req :
    Answered(r) /\ response[r].via \in {"success", "compileError", "timeout"}
      => leftAtResponse[r] = {}

\* C2: an exception after the filter is answered with an internal error, and
\* the request's files are gone when that answer is sent.
C2_CleanupOnInternalError ==
  \A r \in Req :
    Answered(r) /\ response[r].via = "internal"
      => response[r].status = 500 /\ ~response[r].success /\ leftAtResponse[r] = {}

\* C3: a run ended by the 5 second execution timeout resolves with
\* timedOut = true and is answered success:false with the timeout text.
C3_TimeoutIsReported ==
  \A r \in Req :
    Answered(r) /\ "java" \in fired[r]
      => /\ promise[r].timedOut
         /\ ~response[r].success
         /\ response[r].output = TimeoutText

\* C4: an invocation of executeJava has one outcome: the timeout path and the
\* exit path never both resolve its promise, and what the pipeline sees and
\* reports is the value of the first call of resolve.
C4_ExactlyOneOutcome ==
  \A r \in Req :
    /\ Len(resolveLog[r]) <= 1
    /\ response[r].via \in {"success", "timeout"}
         => /\ Len(resolveLog[r]) = 1
            /\ promise[r].state = "resolved"
            /\ promise[r].output = resolveLog[r][1].output
            /\ promise[r].timedOut = resolveLog[r][1].timedOut
            /\ response[r].success = ~resolveLog[r][1].timedOut
            /\ response[r].success => response[r].output = resolveLog[r][1].output

\* C4 witness: the timeout elapsed on a running program and the request was
\* answered from the one outcome of executeJava.
C4_Witness ==
  \E r \in Req :
    Answered(r) /\ "java" \in fired[r] /\ Len(resolveLog[r]) = 1
      /\ response[r].via = "success"

\* C5: the output a request is answered with is the output of its own program.
C5_OwnOutput ==
  \A r \in Req :
    Answered(r) /\ response[r].via = "success"
      => response[r].output = OwnOutput(code[r])

\* C6: every scratch-directory name a request writes, has read or deletes
\* (the class files of its compiler included) carries the request's own
\* identifier, and no two requests use the same name.
C6_OwnNamesOnly ==
  \A r \in Req :
    /\ \A n \in touched[r] : n.id = r
    /\ \A q \in Req \ {r} : touched[r] \cap touched[q] = {}

\* C7: a text without a Main class that is a sequence of statements is
\* wrapped, compiles, runs, and is answered success:true with its output
\* (no fault injected, no timeout elapsed).
C7_BareSnippetRuns ==
  \A r \in Req :
    /\ Answered(r)
    /\ Accepted(code[r])
    /\ ~Includes(code[r].toks, <<T_CLASS>>)
    /\ Parse(ensureMainClass(code[r]).toks).ok
    /\ response[r].via # "internal"
    /\ fired[r] = {}
    => /\ response[r].success
       /\ response[r].output = OwnOutput(code[r])

\* C8: a code that is missing, not a string, empty or longer than 10000
\* characters is answered 400 / success:false with nothing written and no
\* process started; a code of exactly 10000 characters passes the size check.
C8_InvalidIsRejected ==
  \A r \in Req :
    pc[r] # "idle" =>
      /\ (code[r].kind # "string" \/ Length(code[r]) = 0 \/ Length(code[r]) > MaxCodeLength)
           => /\ Answered(r)
              /\ response[r].status = 400
              /\ ~response[r].success
              /\ wrote[r] = {} /\ touched[r] = {} /\ spawned[r] = 0
              /\ leftAtResponse[r] = {}
      /\ (code[r].kind = "string" /\ Length(code[r]) = MaxCodeLength)
           => response[r].via # "tooLong"

\* C8 witness: one request was refused for its length, and one of exactly
\* 10000 characters went on to have its source written.
C8_Witness ==
  \E r, q \in Req :
    /\ Answered(r) /\ response[r].via = "tooLong" /\ Length(code[r]) = MaxCodeLength + 1
    /\ code[q].kind = "string" /\ Length(code[q]) = MaxCodeLength /\ wrote[q] # {}

\* C9: a text matching a pattern of the denylist is answered 400 /
\* success:false; no file is written and no process started for it.
C9_MaliciousIsRejected ==
  \A r \in Req :
    /\ pc[r] # "idle"
    /\ code[r].kind = "string"
    /\ \E k \in 1..Len(dangerousPatterns) : PatternTest(dangerousPatterns[k], code[r])
    => /\ Answered(r)
       /\ response[r].status = 400
       /\ ~response[r].success
       /\ wrote[r] = {} /\ touched[r] = {} /\ spawned[r] = 0
       /\ leftAtResponse[r] = {}

\* C9 witness: a text matching only a white-space pattern was refused by the
\* filter while the scratch directory held another request's file.
C9_Witness ==
  \E r, q \in Req :
    /\ Answered(r) /\ response[r].via = "malicious" /\ code[r] = B_SYNC
    /\ javaFilePath(q) \in DOMAIN fs

\* C10: when the compile or the execution timeout has elapsed, no process
\* started for the request is alive when the request is answered.
C10_NoProcessLeftAtResponse ==
  \A r \in Req :
    Answered(r) /\ fired[r] # {} => aliveAtResponse[r] = {}

\* C11: every answer has the status of its case: a missing, non-string, empty,
\* over-long or denylisted code is answered 400 / success:false; a compile
\* error and an execution timeout are answered 200 / success:false; a run
\* that ended by itself is answered 200 / success:true; an internal failure
\* is answered 500 / success:false.
C11_StatusTaxonomy ==
  \A r \in Req :
    Answered(r) =>
      /\ ~Accepted(code[r]) => response[r].status = 400 /\ ~response[r].success
      /\ response[r].via = "compileError"
           => response[r].status = 200 /\ ~response[r].success
      /\ "java" \in fired[r] /\ response[r].via # "internal"
           => response[r].status = 200 /\ ~response[r].success
      /\ response[r].via = "success" /\ fired[r] = {}
           => response[r].status = 200 /\ response[r].success
      /\ response[r].via = "internal"
           => response[r].status = 500 /\ ~response[r].success

\* C12: the body of a 500 answer does not depend on the exception: any two
\* requests that failed internally are answered with the same error and the
\* same output.
C12_GenericInternalError ==
  \A r, q \in Req :
    /\ Answered(r) /\ response[r].via = "internal"
    /\ Answered(q) /\ response[q].via = "internal"
    => /\ response[r].error = response[q].error
       /\ response[r].output = response[q].output

\* ------------------------------------------------- any temporary directory
\* the server has started on a host with any of the temporary directories
InitAnyTmpdir ==
  /\ Idle
  /\ normalized = <<>>
  /\ NoClient
  /\ tempDir \in TempDirs
  /\ fs = [n \in {} |-> NoFile]

SpecAnyTmpdir == InitAnyTmpdir /\ [][Next]_vars

\* C13: the output of a compile-error answer holds no absolute path: no
\* directory or file name of the scratch directory's path is left in it,
\* wherever os.tmpdir() points.
C13_NoPathInCompileError ==
  \A r \in Req :
    Answered(r) /\ response[r].via = "compileError"
      => \A i \in 1..Len(response[r].output) :
           response[r].output[i] \notin PathChars \ {"\""}

\* C14: a sweep removes no source or class file of a request that has yet to
\* reach its own cleanup, however sweeps and requests interleave (a request
\* lasting no longer than its two timeouts, files being kept for maxAge).
C14_SweepSparesInFlight ==
  lastSweep.ran => lastSweep.removed \cap lastSweep.inFlight = {}

\* C14 witness: a sweep has just removed an old file while it listed a file
\* of a request in flight that was written a full request's time before.
C14_Witness ==
  /\ lastSweep.ran
  /\ lastSweep.removed # {}
  /\ \E n \in lastSweep.inFlight :
       lastSweep.ages[n] = CompileTimeoutMs + ExecuteTimeoutMs

\* C15: a sweep removes every listed file whose modification time is more
\* than maxAge before the sweep, and keeps every file that is maxAge old or
\* younger.
C15_SweepByAge ==
  lastSweep.ran =>
    \A n \in DOMAIN lastSweep.ages \ lastSweep.gone :
      /\ lastSweep.ages[n] > maxAge => n \in lastSweep.removed /\ n \notin DOMAIN fs
      /\ lastSweep.ages[n] <= maxAge => n \notin lastSweep.removed /\ n \in DOMAIN fs

\* C15 witness: one sweep has removed a file older than maxAge and kept a
\* file exactly maxAge old.
C15_Witness ==
  /\ lastSweep.ran
  /\ \E n \in lastSweep.removed : lastSweep.ages[n] > maxAge
  /\ \E n \in DOMAIN fs \cap DOMAIN lastSweep.ages : lastSweep.ages[n] = maxAge

\* C16: a file that is gone when the sweep comes to stat or unlink it is no
\* error: the sweep warns of nothing and still removes every other listed file
\* older than maxAge; and a request whose source file is gone when it cleans
\* up is answered as if the file had been there.
C16_GoneFileIsNoError ==
  /\ [](lastSweep.ran /\ lastSweep.gone # {} =>
          /\ ~lastSweep.warned
          /\ \A n \in DOMAIN lastSweep.ages \ lastSweep.gone :
               lastSweep.ages[n] > maxAge => n \notin DOMAIN fs)
  /\ [][\A r \in Req :
          /\ javaFilePath(r) \notin DOMAIN fs
          /\ pc'[r] = "done"
          => /\ pc[r] = "compiling" /\ ~compileResult(child[r]).success
                  => /\ response'[r] =
                          Response(200, FALSE, <<>>,
                                   formatCompilationError(compileResult(child[r]).error),
                                   TRUE, "compileError")
                     /\ fs' = fs
             /\ pc[r] = "executing"
                  => /\ response'[r].status = 200
                     /\ response'[r].via \in {"success", "timeout"}
                     /\ fs' = fs]_vars

\* C16 witness: a sweep has just met a listed file that was gone and removed
\* another, older than maxAge, after a request whose source file was removed
\* before javac read it was answered with javac's error.
C16_Witness ==
  /\ lastSweep.ran /\ lastSweep.gone # {} /\ lastSweep.removed # {}
  /\ \E r \in Req :
       /\ Answered(r) /\ response[r].via = "compileError"
       /\ \E i \in 1..Len(response[r].output) : response[r].output[i] = "file not found: "

\* C17: every answer of POST /compile, whatever its status, has the same
\* shape and carries an executionTime field.
C17_EveryAnswerIsTimed ==
  \A r \in Req : Answered(r) => response[r].timed

\* what a request that comes to its cleanup is answered with when its files
\* are removed
AnswerAfterCleanup(r) ==
  IF pc[r] = "compiling"
  THEN Response(200, FALSE, <<>>, formatCompilationError(compileResult(child[r]).error),
                TRUE, "compileError")
  ELSE Response(200, TRUE, <<>>, Or(child[r].stdout, child[r].stderr), TRUE, "success")

\* the step in which request r cleans up and answers
CleansUp(r) ==
  /\ pc'[r] = "done"
  /\ \/ pc[r] = "compiling" /\ ~compileResult(child[r]).success
     \/ pc[r] = "executing"

\* C18: a deletion that fails during cleanup is not surfaced: the request is
\* answered with the status and the payload it has when the deletion
\* succeeds, and the files that can be removed are removed.
C18_FailedDeletionIsSwallowed ==
  [][\A r \in Req :
       CleansUp(r) =>
         /\ response'[r] = AnswerAfterCleanup(r)
         /\ \A n \in {javaFilePath(r), classFilePath(r)} \cap DOMAIN fs :
              IF fs[n].locked THEN n \in DOMAIN fs' ELSE n \notin DOMAIN fs']_vars

\* C18 witness: a request was answered 200 while its source file, which the
\* system refused to remove, is still there.
C18_Witness ==
  \E r \in Req :
    /\ Answered(r)
    /\ response[r].status = 200
    /\ javaFilePath(r) \in leftAtResponse[r]
    /\ javaFilePath(r) \in DOMAIN fs /\ fs[javaFilePath(r)].locked

\* C19: the steps of a request come in the order validate, filter, write,
\* compile, execute, cleanup, respond: a source file is written only for a
\* code that passed validation and the filter; javac is started only once the
\* source is written; java is started only when javac has ended without
\* error; a request answered with a compile error never had java started;
\* and nothing is started or answered for a request after its answer.
C19_PipelineOrder ==
  /\ [](\A r \in Req :
          /\ Answered(r) /\ response[r].via = "malicious"
               => ~Invalid(code[r]) /\ ~TooLong(code[r])
          /\ wrote[r] # {} => Accepted(code[r])
          /\ spawned[r] >= 1 => javaFilePath(r) \in wrote[r]
          /\ Answered(r) /\ response[r].via = "compileError"
               => spawned[r] = 1 /\ <<r, "java">> \notin procs)
  /\ [][\A r \in Req :
          /\ pc'[r] # pc[r] =>
               \/ pc[r] = "idle" /\ pc'[r] \in {"compiling", "done"}
               \/ pc[r] = "compiling" /\ pc'[r] \in {"executing", "done"}
               \/ pc[r] = "executing" /\ pc'[r] = "done"
          /\ spawned'[r] # spawned[r] =>
               \/ /\ pc[r] = "idle" /\ pc'[r] = "compiling"
                  /\ spawned'[r] = 1
                  /\ javaFilePath(r) \in DOMAIN fs'
               \/ /\ pc[r] = "compiling" /\ pc'[r] = "executing"
                  /\ spawned'[r] = 2
                  /\ child[r].state = "closed" /\ ~child[r].error
          /\ Answered(r) => response'[r] = response[r] /\ spawned'[r] = spawned[r]]_vars

\* C19 witness: java has been started for one request after its javac ended
\* without error, and another request was answered with a compile error.
C19_Witness ==
  \E r, q \in Req :
    /\ pc[r] = "executing" /\ spawned[r] = 2 /\ <<r, "java">> \in procs
    /\ Answered(q) /\ response[q].via = "compileError" /\ spawned[q] = 1

\* the text compileJava's failure carries: stderr, else stdout, else the
\* message of the failed command
FailureText(c) ==
  IF c.stderr # <<>> THEN c.stderr
  ELSE IF c.stdout # <<>> THEN c.stdout
  ELSE CommandFailed

\* C20: when javac exits with an error or is still running when the 10 s
\* compile timeout elapses, exec reports an error; the request is then
\* answered in one step with the compile-error payload made of stderr (else
\* stdout, else the command's error message), its source file is removed, and
\* java is not started.
C20_CompileFailure ==
  /\ [](\A r \in Req :
          /\ pc[r] = "compiling" /\ child[r].state = "closed"
          /\ "javac" \in fired[r] \/ child[r].stderr # <<>>
          => child[r].error /\ ~compileResult(child[r]).success)
  /\ [][\A r \in Req :
          /\ pc[r] = "compiling" /\ child[r].state = "closed" /\ child[r].error
          /\ pc'[r] # pc[r]
          => /\ pc'[r] = "done"
             /\ response'[r] = Response(200, FALSE, <<>>,
                                        formatCompilationError(FailureText(child[r])),
                                        TRUE, "compileError")
             /\ javaFilePath(r) \notin DOMAIN fs'
             /\ spawned'[r] = 1
             /\ <<r, "java">> \notin procs']_vars

\* C20 witness: one request was answered with javac's own error text, another
\* with the message of the command the compile timeout ended.
C20_Witness ==
  \E r, q \in Req :
    /\ Answered(r) /\ response[r].via = "compileError" /\ fired[r] = {}
    /\ \E i \in 1..Len(response[r].output) :
         response[r].output[i] = "illegal start of expression"
    /\ Answered(q) /\ response[q].via = "compileError" /\ "javac" \in fired[q]
    /\ \E i \in 1..Len(response[q].output) :
         response[q].output[i] = "Command failed: javac -d "

\* the text declares the class Main: `class Main` is in it outside a comment
DeclaresMain(c) == Includes(StripTrivia(c.toks, FALSE), <<T_CLASS>>)

\* the entry-point template around a text
Wrapped(c) == [c EXCEPT !.toks = WrapPrefix \o c.toks \o WrapSuffix]

\* C21 as stated: a text that declares the class Main is returned unchanged,
\* any other text is returned inside the template, and a normalized text is
\* returned unchanged.
C21_DeclarationOrTemplate ==
  \A i \in 1..(Len(normalized) - 1) :
    /\ normalized[i + 1] =
         IF DeclaresMain(normalized[i]) THEN normalized[i] ELSE Wrapped(normalized[i])
    /\ i > 1 => normalized[i + 1] = normalized[i]

\* C21: a text in which the characters `class Main` occur anywhere, a comment
\* included, is returned unchanged; any other text is returned inside the
\* template, verbatim; and a normalized text is returned unchanged.
C21_TextualOrTemplate ==
  \A i \in 1..(Len(normalized) - 1) :
    /\ normalized[i + 1] =
         IF Includes(normalized[i].toks, <<T_CLASS>>)
         THEN normalized[i] ELSE Wrapped(normalized[i])
    /\ i > 1 => normalized[i + 1] = normalized[i]

\* C21 witness: a text with a comment and a statement, but without the words
\* `class Main`, was put inside the template, and the result came back
\* unchanged when it was normalized again.
C21_Witness ==
  /\ Len(normalized) = MaxApply + 1
  /\ normalized[1].toks = <<T_CSTART, T_NL, T_PRINT>>
  /\ normalized[2] = Wrapped(normalized[1])
  /\ normalized[2] # normalized[1]
  /\ normalized[3] = normalized[2]

\* C22: every request that has arrived is answered in the end, provided the
\* callbacks of its subprocesses fire; a request has an answer exactly when it
\* is done; and an answer, once sent, is never followed by another.
C22_AnsweredOnce ==
  /\ \A r \in EnvReq : (pc[r] # "idle") ~> Answered(r)
  /\ [](\A r \in EnvReq : (response[r] # NoResponse) <=> Answered(r))
  /\ [][\A r \in EnvReq :
          /\ response'[r] # response[r] => response[r] = NoResponse /\ ~Answered(r)
          /\ Answered(r) => Answered(r)']_vars

\* C22 witness: a request was answered after both of its subprocesses had
\* been started, the timeout of the second had elapsed and the deletion of a
\* file had failed.
C22_Witness ==
  \E r \in EnvReq :
    /\ Answered(r) /\ spawned[r] = 2 /\ "java" \in fired[r]
    /\ response[r] # NoResponse
    /\ leftAtResponse[r] # {}

\* C23: the page never has two requests in flight, and has one exactly while
\* isRunning is set; a call of runCode made while isRunning is set sends
\* nothing; the completion of a run clears isRunning; and isRunning, once
\* set, is cleared in the end.
C23_OneRunAtATime ==
  /\ [](fetches <= 1 /\ (isRunning <=> fetches = 1))
  /\ [][isRunning => fetches' <= fetches]_vars
  /\ [][fetches' < fetches => ~isRunning']_vars
  /\ isRunning ~> ~isRunning

\* C23 witness: a run has been completed, another is under way, and a call
\* of runCode made meanwhile was refused.
C23_Witness ==
  /\ runs >= 2
  /\ isRunning
  /\ fetches = 1
  /\ lastCall = "busy"

====
